---------------------------- MODULE Spec2Model ----------------------------
(***************************************************************************)
(* A model of src/pipeline19.py: the three luigi tasks DownloadData,       *)
(* ExtractAndProcessData and SegmentTables, the local filesystem they      *)
(* read and write, and the run that luigi.build makes of them.             *)
(*                                                                         *)
(* Text is modelled at the level the code looks at it.  A line is a        *)
(* sequence of tokens: the characters "[", "]" and "\t" (one token each)   *)
(* and words (maximal runs of other characters, kept whole).  The line     *)
(* terminator is left out of a line; no line of the model is blank.        *)
(* A file name is its sequence of dot-separated parts (<<"GPL","txt">> is  *)
(* GPL.txt), a path the sequence of its components.                        *)
(***************************************************************************)
EXTENDS Integers, Sequences, FiniteSets, TLC

\* ------------------------------------------------------------------ bounds

\* Longest text file (in lines) among the exhaustively enumerated inputs.
MaxLines == 4

\* Most members of an archive.
MaxMembers == 2

\* Most invocations of the script in one behaviour.
MaxRuns == 2

\* ------------------------------------------------------- generic helpers

Max(a, b) == IF a >= b THEN a ELSE b

Front(s) == SubSeq(s, 1, Len(s) - 1)

Last(s) == s[Len(s)]

Range(s) == {s[i] : i \in 1..Len(s)}

RECURSIVE SeqsUpTo(_, _)
\* All sequences over S of length at most n.
SeqsUpTo(S, n) ==
    IF n = 0 THEN {<<>>}
    ELSE LET shorter == SeqsUpTo(S, n - 1)
         IN  shorter \cup {Append(s, x) : s \in {t \in shorter : Len(t) = n - 1}, x \in S}

\* ------------------------------------------------------------ text lines

Bracket == {"[", "]"}

\* line.startswith('[')
StartsWithBracket(line) == Len(line) > 0 /\ line[1] = "["

RECURSIVE LStrip(_)
LStrip(line) ==
    IF line # <<>> /\ line[1] \in Bracket THEN LStrip(Tail(line)) ELSE line

RECURSIVE RStrip(_)
RStrip(line) ==
    IF line # <<>> /\ Last(line) \in Bracket THEN RStrip(Front(line)) ELSE line

RECURSIVE Render(_)
\* The string a sequence of tokens spells.
Render(toks) == IF toks = <<>> THEN "" ELSE toks[1] \o Render(Tail(toks))

\* line.strip('[]\n'): every leading and trailing bracket character (and the
\* terminator) removed; what is left is the section tag, a string.
StripTag(line) == Render(RStrip(LStrip(line)))

RECURSIVE SplitTabs(_, _)
\* line.split('\t') with the cell under construction in acc.
SplitTabs(line, acc) ==
    IF line = <<>> THEN <<acc>>
    ELSE IF line[1] = "\t" THEN <<acc>> \o SplitTabs(Tail(line), "")
    ELSE SplitTabs(Tail(line), acc \o line[1])

\* The cells of a tab-separated line.
Cells(line) == SplitTabs(line, "")


\* ------------------------------------------- tabular I/O (pandas) interface
\* A DataFrame is its column names and its rows of cells; cells are opaque
\* strings (no type inference) and the header lines of the model name each
\* column once.

NoDf == [columns |-> <<>>, rows |-> <<>>]

\* A row cut or padded with empty cells to exactly w cells, then without its
\* first lead cells.
FitRow(row, w, lead) ==
    [j \in 1..(w - lead) |-> IF j + lead <= Len(row) THEN row[j + lead] ELSE ""]

NonBlank(line) == line # <<>>

\* pd.read_csv(fio, sep='\t'): blank lines are skipped; no line at all is an
\* EmptyDataError; the first line is the header; the table is as wide as the
\* wider of the header and the first data row, the surplus leading cells being
\* the row index (which to_csv(index=False) does not write); a shorter row is
\* padded, a longer one is a ParserError.
ReadCsv(fio) ==
    LET lines  == SelectSeq(fio, NonBlank)
        header == Cells(lines[1])
        data   == [i \in 1..(Len(lines) - 1) |-> Cells(lines[i + 1])]
        w      == IF data = <<>> THEN Len(header) ELSE Max(Len(header), Len(data[1]))
    IN  IF lines = <<>> THEN [err |-> "EmptyDataError", df |-> NoDf]
        ELSE IF \E i \in 1..Len(data) : Len(data[i]) > w
             THEN [err |-> "ParserError", df |-> NoDf]
        ELSE [err |-> "",
              df  |-> [columns |-> header,
                       rows    |-> [i \in 1..Len(data) |->
                                      FitRow(data[i], w, w - Len(header))]]]

\* df.to_csv(path, sep='\t', index=False): the header row, then the rows.
ToCsv(df) == <<df.columns>> \o df.rows

RECURSIVE Without(_)
\* The cells of s that are not marked to be dropped, in order.
Without(s) ==
    IF s = <<>> THEN <<>>
    ELSE IF Head(s).drop THEN Without(Tail(s))
    ELSE <<Head(s).cell>> \o Without(Tail(s))

\* The columns SegmentTables removes from a table tagged Probes.
VerboseColumns ==
    {"Definition", "Ontology_Component", "Ontology_Process", "Ontology_Function",
     "Synonyms", "Obsolete_Probe_Id", "Probe_Sequence"}

DropRow(df, row, names) ==
    Without([j \in 1..Len(df.columns) |->
               [cell |-> row[j], drop |-> df.columns[j] \in names]])

\* A drop that removes the names from the header and leaves the rows whole.
DropColumnsHeaderOnly(df, names) ==
    IF ~(names \subseteq Range(df.columns)) THEN [err |-> "KeyError", df |-> NoDf]
    ELSE [err |-> "", df |-> [columns |-> DropRow(df, df.columns, names), rows |-> df.rows]]

\* df.drop(columns=names) (errors='raise'): a name that is no column of df is a
\* KeyError; otherwise the named columns are removed, the others keep their order.
DropColumns(df, names) ==
    IF ~(names \subseteq Range(df.columns)) THEN [err |-> "KeyError", df |-> NoDf]
    ELSE [err |-> "",
          df  |-> [columns |-> DropRow(df, df.columns, names),
                   rows    |-> [i \in 1..Len(df.rows) |-> DropRow(df, df.rows[i], names)]]]

\* ------------------------------------- SegmentTables._process_text_file
\* write_key is <<>> for None and <<s>> for the string s; dfs is the dict as
\* the sequence of its items in insertion order.

None == <<>>

\* Python's truth value of write_key: None and '' are false.
Truthy(key) == key # None /\ key[1] # ""

\* str(key), as the f-string formats it.
KeyStr(key) == IF key = None THEN "None" ELSE key[1]

HasKey(dfs, key) == \E i \in 1..Len(dfs) : dfs[i].key = key

\* dfs[key] = df: an existing key keeps its place and takes the new value.
DictSet(dfs, key, df) ==
    IF HasKey(dfs, key)
    THEN [i \in 1..Len(dfs) |-> IF dfs[i].key = key THEN [key |-> key, df |-> df] ELSE dfs[i]]
    ELSE Append(dfs, [key |-> key, df |-> df])

\* A parser that starts with the empty string for the tag.
ParseInitEmptyTag == [fio |-> <<>>, write_key |-> <<"">>, dfs |-> <<>>, err |-> ""]

\* The parser before the first line: lines 109-113.
ParseInit == [fio |-> <<>>, write_key |-> None, dfs |-> <<>>, err |-> ""]

\* One turn of the loop over the file's lines: lines 114-122.
ReadLine(st, line) ==
    IF StartsWithBracket(line)
    THEN IF Truthy(st.write_key)
         THEN LET r == ReadCsv(st.fio)
              IN  IF r.err # "" THEN [st EXCEPT !.err = r.err]
                  ELSE [fio       |-> <<>>,
                        write_key |-> <<StripTag(line)>>,
                        dfs       |-> DictSet(st.dfs, st.write_key, r.df),
                        err       |-> ""]
         ELSE [st EXCEPT !.write_key = <<StripTag(line)>>]
    ELSE [st EXCEPT !.fio = Append(@, line)]

\* After the last line: lines 123-124.
AtEof(st) ==
    LET r == ReadCsv(st.fio)
    IN  IF r.err # "" THEN [st EXCEPT !.err = r.err]
        ELSE [st EXCEPT !.dfs = DictSet(st.dfs, st.write_key, r.df), !.fio = <<>>]

RECURSIVE ParseLines(_, _)
\* The loop over the lines, stopped by the first error.
ParseLines(st, lines) ==
    IF lines = <<>> \/ st.err # "" THEN st
    ELSE ParseLines(ReadLine(st, Head(lines)), Tail(lines))

\* The whole of the with-block, lines 111-124.
ParseFile(lines) ==
    LET st == ParseLines(ParseInit, lines)
    IN  IF st.err # "" THEN st ELSE AtEof(st)

\* filename.replace(".txt", f"_{key}.tsv") for a file name that holds ".txt"
\* once, as its suffix.
OutName(filename, key) ==
    LET stem == Front(filename)
    IN  Front(stem) \o <<Last(stem) \o "_" \o KeyStr(key), "tsv">>

ReducedName == <<"Probes_reduced", "tsv">>

\* A turn that drops the columns before it writes anything: a table tagged
\* Probes that lacks a column leaves no file.
SaveItemDropFirst(filename, item) ==
    LET main == [name |-> OutName(filename, item.key), content |-> ToCsv(item.df)]
        red  == DropColumns(item.df, VerboseColumns)
    IN  IF item.key # <<"Probes">> THEN [err |-> "", writes |-> <<main>>]
        ELSE IF red.err # "" THEN [err |-> red.err, writes |-> <<>>]
        ELSE [err |-> "",
              writes |-> <<main, [name |-> ReducedName, content |-> ToCsv(red.df)]>>]

\* One turn of the loop over dfs.items(), lines 132-144: the files it writes,
\* in order, and the error that ends it.
SaveItem(filename, item) ==
    LET main == [name |-> OutName(filename, item.key), content |-> ToCsv(item.df)]
        red  == DropColumns(item.df, VerboseColumns)
    IN  IF item.key # <<"Probes">> THEN [err |-> "", writes |-> <<main>>]
        ELSE IF red.err # "" THEN [err |-> red.err, writes |-> <<main>>]
        ELSE [err |-> "",
              writes |-> <<main, [name |-> ReducedName, content |-> ToCsv(red.df)]>>]

RECURSIVE SaveItems(_, _)
\* The loop of lines 132-144 over the items from the first on.
SaveItems(filename, items) ==
    IF items = <<>> THEN [err |-> "", writes |-> <<>>]
    ELSE LET one == SaveItem(filename, Head(items))
         IN  IF one.err # "" THEN one
             ELSE LET rest == SaveItems(filename, Tail(items))
                  IN  [err |-> rest.err, writes |-> one.writes \o rest.writes]

\* _process_text_file as a whole: whether it raised, whether it reached the
\* makedirs of lines 127-129, and the files it wrote, in order.
ProcessTextFile(lines, filename) ==
    LET st == ParseFile(lines)
        sv == SaveItems(filename, st.dfs)
    IN  IF st.err # "" THEN [err |-> st.err, made |-> FALSE, writes |-> <<>>]
        ELSE [err |-> sv.err, made |-> TRUE, writes |-> sv.writes]

\* ------------------------------------------------------------ the inputs

LHeader == <<"[", "Header", "]">>
LProbes == <<"[", "Probes", "]">>
LEmptyTag == <<"[", "]">>
Lab == <<"a", "\t", "b">>
L12 == <<"1", "\t", "2">>
LPart == <<"ID", "\t", "Definition", "\t", "Probe_Sequence">>
LPartRow == <<"1", "\t", "foo", "\t", "ACGT">>
LFull ==
    <<"ID", "\t", "Definition", "\t", "Ontology_Component", "\t", "Ontology_Process",
      "\t", "Ontology_Function", "\t", "Synonyms", "\t", "Obsolete_Probe_Id",
      "\t", "Probe_Sequence", "\t", "Symbol">>
LFullRow ==
    <<"1", "\t", "foo", "\t", "c", "\t", "p", "\t", "f", "\t", "s", "\t", "o",
      "\t", "ACGT", "\t", "TP53">>

\* The lines the enumerated files are made of.
Lines == {LHeader, LProbes, LEmptyTag, Lab, L12, LPart, LFull}

\* Longer files: the example of the design's round-trip property, the same
\* with every verbose column present, and a file with a repeated tag.
SampleFiles ==
    { <<LHeader, Lab, L12, LProbes, LPart, LPartRow>>,
      <<LHeader, Lab, L12, LProbes, LFull, LFullRow>>,
      <<LProbes, LFull, LFullRow, LHeader, Lab, L12>>,
      <<LHeader, Lab, L12, LProbes, LFull, LFullRow, LHeader, Lab>> }

Files == SeqsUpTo(Lines, MaxLines) \cup SampleFiles

\* The name of the text file the segmenter is given.
TextName == <<"GPL", "txt">>

\* ------------------------------------------------------- the filesystem
\* A filesystem is a function from the paths that exist to their nodes:
\* [kind |-> "dir"], an archive [kind |-> "tar", members], a compressed file
\* [kind |-> "gz", ok, lines], a text file [kind |-> "text", lines] or a
\* written table [kind |-> "tsv", rows].

Dir == [kind |-> "dir"]

\* os.path.exists(p)
Exists(f, p) == p \in DOMAIN f

\* os.path.isdir(p)
IsDir(f, p) == Exists(f, p) /\ f[p].kind = "dir"

Prefixes(p) == {SubSeq(p, 1, n) : n \in 1..Len(p)}

\* os.makedirs(p), called where p does not exist: p and its missing parents.
MakeDirs(f, p) == [q \in DOMAIN f \cup Prefixes(p) |-> IF q \in DOMAIN f THEN f[q] ELSE Dir]

\* A file created or truncated at p and written with node.
WriteFile(f, p, node) == (p :> node) @@ f

\* os.remove(p)
Remove(f, p) == [q \in DOMAIN f \ {p} |-> f[q]]

\* os.listdir(p): the names in p (in no order).
ListDir(f, p) ==
    {q[Len(q)] : q \in {r \in DOMAIN f : Len(r) = Len(p) + 1 /\ SubSeq(r, 1, Len(p)) = p}}

\* os.path.splitext(name)[0]: the name without its last extension.
SplitExt(name) == IF Len(name) > 1 THEN Front(name) ELSE name

\* name.endswith('.' + ext)
EndsWith(name, ext) == Len(name) > 1 /\ Last(name) = ext

\* ------------------------------------------------------------ the tasks

Stages == {"DownloadData", "ExtractAndProcessData", "SegmentTables"}

\* The task the script builds: line 156.
Terminal == "SegmentTables"

\* SegmentTables made to require the download instead of the extraction.
RequiresWrong(stage) ==
    CASE stage = "DownloadData" -> <<>>
      [] stage = "ExtractAndProcessData" -> <<"DownloadData">>
      [] stage = "SegmentTables" -> <<"DownloadData">>

\* requires(): the tasks a task depends on.
Requires(stage) ==
    CASE stage = "DownloadData" -> <<>>
      [] stage = "ExtractAndProcessData" -> <<"DownloadData">>
      [] stage = "SegmentTables" -> <<"ExtractAndProcessData">>

\* os.path.join(root, dataset_name): dataset_name is its sequence of
\* path segments.
UnderRoot(root, name) == <<<<root>>>> \o [i \in 1..Len(name) |-> <<name[i]>>]

\* output(): lines 16-17, 84-85 and 151-152.
Output(stage, name) ==
    CASE stage = "DownloadData" ->
           UnderRoot("data", Front(name)) \o <<<<Last(name) \o "_RAW", "tar">>>>
      [] stage = "ExtractAndProcessData" -> UnderRoot("extracted", name)
      [] stage = "SegmentTables" -> UnderRoot("processed", name)

\* Task.complete(): the output exists.
Complete(f, stage, name) == Exists(f, Output(stage, name))

\* self.input(): the output of the required task.
Input(stage, name) == Output(Requires(stage)[1], name)

\* wget.download raising, and no archive at all.
Failed == [kind |-> "fail"]

Absent == [kind |-> "none"]

\* DownloadData.run, lines 20-29; res is what wget.download does: Failed (it
\* raises and leaves nothing at the path) or the archive it stores there,
\* which it can only where the directory of the path exists.
DownloadRun(f, name, res) ==
    LET f1 == IF ~Exists(f, <<<<"data">>>>) THEN MakeDirs(f, <<<<"data">>>>) ELSE f
    IN  IF res = Failed THEN [fs |-> f1, err |-> "URLError"]
        ELSE IF ~IsDir(f1, Front(Output("DownloadData", name)))
             THEN [fs |-> f1, err |-> "FileNotFoundError"]
        ELSE [fs |-> WriteFile(f1, Output("DownloadData", name), res), err |-> ""]

RECURSIVE ExtractAll(_, _, _)
\* tar.extractall(path): each member written under path.
ExtractAll(f, path, members) ==
    IF members = <<>> THEN f
    ELSE ExtractAll(WriteFile(f, Append(path, Head(members).name), Head(members).node),
                    path, Tail(members))

\* A decompression whose os.remove is the last statement of the try block:
\* the compressed file is removed only when decompression succeeds.
RemoveGzOnSuccess(f, gz_path, extract_path) ==
    LET output_path == Append(extract_path, SplitExt(Last(gz_path)))
        gz          == f[gz_path]
    IN  IF gz.ok
        THEN [fs  |-> Remove(WriteFile(f, output_path, [kind |-> "text", lines |-> gz.lines]),
                             gz_path),
              err |-> ""]
        ELSE [fs  |-> WriteFile(f, output_path, [kind |-> "text", lines |-> <<>>]),
              err |-> "BadGzipFile"]

\* _process_gzip_file, lines 69-81: the output file is opened (created) before
\* the first read; an undecodable stream raises there and leaves it empty; the
\* compressed file is removed either way.
ProcessGzipFile(f, gz_path, extract_path) ==
    LET filename    == SplitExt(Last(gz_path))
        output_path == Append(extract_path, filename)
        gz          == f[gz_path]
    IN  IF gz.ok
        THEN [fs  |-> Remove(WriteFile(f, output_path, [kind |-> "text", lines |-> gz.lines]),
                             gz_path),
              err |-> ""]
        ELSE [fs  |-> Remove(WriteFile(f, output_path, [kind |-> "text", lines |-> <<>>]),
                             gz_path),
              err |-> "BadGzipFile"]

RECURSIVE ProcessItems(_, _, _)
\* The loop over file_names, lines 60-66.
ProcessItems(f, extract_path, file_names) ==
    IF file_names = <<>> THEN [fs |-> f, err |-> ""]
    ELSE LET item      == Head(file_names)
             item_path == Append(extract_path, item)
             item_dir  == Append(extract_path, SplitExt(item))
             f1        == IF ~Exists(f, item_dir) THEN MakeDirs(f, item_dir) ELSE f
         IN  IF EndsWith(item, "gz")
             THEN LET r == ProcessGzipFile(f1, item_path, item_dir)
                  IN  IF r.err # "" THEN r
                      ELSE ProcessItems(r.fs, extract_path, Tail(file_names))
             ELSE ProcessItems(f1, extract_path, Tail(file_names))

\* The archive removed only after an attempt that did not raise.
RemoveOnSuccess(f, tar_path, err) == IF err = "" THEN Remove(f, tar_path) ELSE f

\* The finally clause of lines 56-57, after an attempt that ended with err.
RemoveArchive(f, tar_path, err) == Remove(f, tar_path)

\* ExtractAndProcessData.run, lines 40-66.  fail is -1 when the archive opens
\* and extracts, and otherwise the number of members extracted before
\* tarfile raised (0: it could not be opened).
ExtractRun(f, name, fail) ==
    LET tar_path     == Input("ExtractAndProcessData", name)
        extract_path == UnderRoot("extracted", name)
        f1           == IF ~Exists(f, extract_path) THEN MakeDirs(f, extract_path) ELSE f
    IN  IF ~Exists(f1, tar_path) THEN [fs |-> f1, err |-> "FileNotFoundError"]
        ELSE IF f1[tar_path].kind # "tar"
             THEN [fs |-> RemoveArchive(f1, tar_path, "ReadError"), err |-> "ReadError"]
        ELSE LET members == f1[tar_path].members
             IN  IF fail >= 0
                 THEN [fs  |-> RemoveArchive(
                                  ExtractAll(f1, extract_path, SubSeq(members, 1, fail)),
                                  tar_path, "ReadError"),
                       err |-> "ReadError"]
                 ELSE ProcessItems(
                          RemoveArchive(ExtractAll(f1, extract_path, members), tar_path, ""),
                          extract_path,
                          [i \in 1..Len(members) |-> members[i].name])

\* The ways tarfile can fail on the archive at tar_path (and -1: it does not).
ExtractFails(f, tar_path) ==
    IF Exists(f, tar_path) /\ f[tar_path].kind = "tar"
    THEN -1..Max(0, Len(f[tar_path].members) - 1)
    ELSE {-1}

\* The (dir_name, filename) pairs SegmentTables.run hands to
\* _process_text_file: lines 98-105.
TextJobs(f, extract_path) ==
    UNION {{<<d, n>> : n \in {m \in ListDir(f, Append(extract_path, d)) : EndsWith(m, "txt")}} :
             d \in {e \in ListDir(f, extract_path) : IsDir(f, Append(extract_path, e))}}

\* The orders in which os.listdir can yield them: every order that keeps the
\* files of one directory together.
JobOrders(jobs) ==
    {o \in [1..Cardinality(jobs) -> jobs] :
        /\ \A i, j \in DOMAIN o : i # j => o[i] # o[j]
        /\ \A i, j, k \in DOMAIN o : (i < j /\ j < k /\ o[i][1] = o[k][1]) => o[j][1] = o[i][1]}

RECURSIVE WriteAll(_, _, _)
\* The files of the writes ws created in output_dir.
WriteAll(f, output_dir, ws) ==
    IF ws = <<>> THEN f
    ELSE WriteAll(WriteFile(f, Append(output_dir, Head(ws).name),
                            [kind |-> "tsv", rows |-> Head(ws).content]),
                  output_dir, Tail(ws))

\* _process_text_file on the filesystem: lines 108-148.
ProcessTextFileAt(f, name, file_path, filename, dir_name) ==
    LET r          == ProcessTextFile(f[file_path].lines, filename)
        output_dir == Append(UnderRoot("processed", name), dir_name)
        f1         == IF r.made /\ ~Exists(f, output_dir) THEN MakeDirs(f, output_dir) ELSE f
    IN  [fs |-> WriteAll(f1, output_dir, r.writes), err |-> r.err]

RECURSIVE ProcessJobs(_, _, _, _)
ProcessJobs(f, name, extract_path, jobs) ==
    IF jobs = <<>> THEN [fs |-> f, err |-> ""]
    ELSE LET dir_name == Head(jobs)[1]
             filename == Head(jobs)[2]
             r == ProcessTextFileAt(f, name, Append(extract_path, dir_name) \o <<filename>>,
                                    filename, dir_name)
         IN  IF r.err # "" THEN r ELSE ProcessJobs(r.fs, name, extract_path, Tail(jobs))

\* SegmentTables.run, lines 96-105, with the directory listings in order.
SegmentRun(f, name, order) ==
    LET extract_path == Input("SegmentTables", name)
    IN  IF ~Exists(f, extract_path) THEN [fs |-> f, err |-> "FileNotFoundError"]
        ELSE IF ~IsDir(f, extract_path) THEN [fs |-> f, err |-> "NotADirectoryError"]
        ELSE ProcessJobs(f, name, extract_path, order)

\* ---------------------------------------------------------------- state

VARIABLES
    lines,      \* the text file read by _process_text_file
    pos,        \* the next line of it to read
    fio,        \* the buffer
    write_key,  \* the current section tag
    dfs,        \* the tables finalized so far
    item,       \* the next item of dfs to save
    outdir,     \* the output directory's files, by name (when made)
    made,       \* whether lines 127-129 were reached
    pcSeg,      \* "idle", "read", "save", "done" or "raised"
    fs,           \* the filesystem
    dataset_name, \* the parameter of the three tasks
    phase,        \* "start", "running" (inside luigi.build) or "exited"
    status,       \* the scheduler's status of each task in this invocation
    ran,          \* the run actions started in this invocation, in order
    fs0,          \* the filesystem when this invocation began
    runs,         \* the invocations begun
    prevRan,      \* the run actions of the invocation before this one
    success,      \* what luigi.build returns
    exitStatus    \* the exit status of the process

segVars == <<lines, pos, fio, write_key, dfs, item, outdir, made, pcSeg>>

pipeVars == <<fs, dataset_name, phase, status, ran, fs0, runs, prevRan, success, exitStatus>>

vars == <<segVars, pipeVars>>

\* The empty directory: no name maps to a file.
NoFiles == <<>>

\* The directory files after the writes ws, in order (a later write of the
\* same name replaces the earlier).
RECURSIVE Written(_, _)
Written(files, ws) ==
    IF ws = <<>> THEN files
    ELSE Written((Head(ws).name :> Head(ws).content) @@ files, Tail(ws))

SegState == [fio |-> fio, write_key |-> write_key, dfs |-> dfs, err |-> ""]

NoFs == <<>>

NoStatus == [t \in Stages |-> "UNKNOWN"]

\* The pipeline at rest, in the behaviours of the segmenter alone.
PipeIdle ==
    /\ fs = NoFs /\ dataset_name = <<"GSE68849">> /\ phase = "start"
    /\ status = NoStatus /\ ran = <<>> /\ fs0 = NoFs /\ runs = 0
    /\ prevRan = <<>> /\ success = TRUE /\ exitStatus = 0

SegIdle ==
    /\ lines = <<>> /\ pos = 0 /\ fio = <<>> /\ write_key = None /\ dfs = <<>>
    /\ item = 0 /\ outdir = NoFiles /\ made = FALSE /\ pcSeg = "idle"

\* _process_text_file entered with a file of Files (lines 109-113), the
\* pipeline at rest.
SegInit ==
    /\ PipeIdle
    /\ lines \in Files
    /\ pos = 1
    /\ fio = ParseInit.fio /\ write_key = ParseInit.write_key /\ dfs = ParseInit.dfs
    /\ item = 1 /\ outdir = NoFiles /\ made = FALSE /\ pcSeg = "read"

\* What one turn of the reading loop leaves in the variables.
SegAfter(st) ==
    /\ fio' = st.fio
    /\ write_key' = st.write_key
    /\ dfs' = st.dfs
    /\ pcSeg' = IF st.err # "" THEN "raised" ELSE "read"
    /\ pos' = pos + 1
    /\ UNCHANGED <<lines, item, outdir, made>>

\* A line that begins with '[': lines 115-121.
SegReadTagLine ==
    /\ pcSeg = "read" /\ pos <= Len(lines)
    /\ StartsWithBracket(lines[pos])
    /\ SegAfter(ReadLine(SegState, lines[pos]))

\* Any other line: line 122.
SegReadDataLine ==
    /\ pcSeg = "read" /\ pos <= Len(lines)
    /\ ~StartsWithBracket(lines[pos])
    /\ SegAfter(ReadLine(SegState, lines[pos]))

\* End of file: the last table (lines 123-124) and the output directory
\* (lines 127-129).
SegEof ==
    /\ pcSeg = "read" /\ pos > Len(lines)
    /\ LET st == AtEof(SegState)
       IN  /\ fio' = st.fio
           /\ dfs' = st.dfs
           /\ pcSeg' = IF st.err # "" THEN "raised" ELSE "save"
           /\ made' = (st.err = "")
    /\ UNCHANGED <<lines, pos, write_key, item, outdir>>

\* One item of dfs saved: lines 132-144.
SegSaveItem ==
    /\ pcSeg = "save" /\ item <= Len(dfs)
    /\ LET sv == SaveItem(TextName, dfs[item])
       IN  /\ outdir' = Written(outdir, sv.writes)
           /\ pcSeg' = IF sv.err # "" THEN "raised"
                       ELSE IF item = Len(dfs) THEN "done" ELSE "save"
    /\ item' = item + 1
    /\ UNCHANGED <<lines, pos, fio, write_key, dfs, made>>

SegNext ==
    \/ SegReadTagLine /\ UNCHANGED pipeVars
    \/ SegReadDataLine /\ UNCHANGED pipeVars
    \/ SegEof /\ UNCHANGED pipeVars
    \/ SegSaveItem /\ UNCHANGED pipeVars

SpecSeg == SegInit /\ [][SegNext]_vars

\* The step machine and ProcessTextFile are the same function.
SegAgrees ==
    pcSeg \in {"done", "raised"} =>
        LET r == ProcessTextFile(lines, TextName)
        IN  /\ (pcSeg = "raised") = (r.err # "")
            /\ made = r.made
            /\ outdir = Written(NoFiles, r.writes)

\* ------------------------------------------------------------ the pipeline

\* Text files of archive members: one that segments and reduces, the example
\* of the round-trip property (its Probes table lacks verbose columns), and
\* one whose only section is empty.
TGood == <<LHeader, Lab, L12, LProbes, LFull, LFullRow>>
TPart == <<LHeader, Lab, L12, LProbes, LPart, LPartRow>>
TBad == <<LHeader>>

PipeTexts == {TGood, TPart, TBad}

GzMember(name, ok, text) ==
    [name |-> name, node |-> [kind |-> "gz", ok |-> ok, lines |-> text]]

\* The members archives are made of: a compressed text file, a compressed
\* file that does not decompress, a member that is not compressed.
MemberChoices ==
    {GzMember(<<"GPL", "txt", "gz">>, TRUE, t) : t \in PipeTexts}
      \cup {GzMember(<<"GSM", "txt", "gz">>, FALSE, TGood)}
      \cup {[name |-> <<"notes", "txt">>, node |-> [kind |-> "text", lines |-> <<Lab, L12>>]]}

Archives ==
    {[kind |-> "tar", members |-> m] :
       m \in {s \in SeqsUpTo(MemberChoices, MaxMembers) :
                \A i, j \in 1..Len(s) : i # j => s[i].name # s[j].name}}

DatasetNames == {<<"GSE68849">>}

\* The filesystems an invocation can find: each of the three outputs there
\* or not (the archive with any content, the directories empty).
InitialFs(name) ==
    {LET f1 == IF a = Absent THEN NoFs
               ELSE WriteFile(MakeDirs(NoFs, Front(Output("DownloadData", name))),
                              Output("DownloadData", name), a)
         f2 == IF e THEN MakeDirs(f1, Output("ExtractAndProcessData", name)) ELSE f1
     IN  IF p THEN MakeDirs(f2, Output("SegmentTables", name)) ELSE f2 :
       a \in Archives \cup {Absent}, e \in BOOLEAN, p \in BOOLEAN}

PipeInit ==
    /\ dataset_name \in DatasetNames
    /\ fs \in InitialFs(dataset_name)
    /\ phase = "start" /\ status = NoStatus /\ ran = <<>> /\ fs0 = NoFs
    /\ runs = 0 /\ prevRan = <<>> /\ success = TRUE /\ exitStatus = 0

Init == PipeInit /\ SegIdle

\* The tasks take any string for dataset_name (lines 13, 33 and 89): the
\* script's identifier, one that names a path below it, and another.
IsoNames == {<<"GSE68849">>, <<"GSE68849", "sub">>, <<"GSE1">>}

\* The pipeline built for any of these identifiers.
IsoInit ==
    /\ dataset_name \in IsoNames
    /\ fs \in InitialFs(dataset_name)
    /\ phase = "start" /\ status = NoStatus /\ ran = <<>> /\ fs0 = NoFs
    /\ runs = 0 /\ prevRan = <<>> /\ success = TRUE /\ exitStatus = 0
    /\ SegIdle

RECURSIVE AddTaskAll(_, _, _, _)
\* A worker that adds the requirements of a complete task too.
AddTaskAll(st, f, stage, name) ==
    LET st1 == [st EXCEPT ![stage] = IF Complete(f, stage, name) THEN "DONE" ELSE "PENDING"]
    IN  IF Requires(stage) = <<>> THEN st1
        ELSE AddTaskAll(st1, f, Requires(stage)[1], name)

\* A worker that adds the task alone, never what it requires.
AddTaskAlone(st, f, stage, name) ==
    [st EXCEPT ![stage] = IF Complete(f, stage, name) THEN "DONE" ELSE "PENDING"]

RECURSIVE AddTask(_, _, _, _)
\* The worker adds a task to the scheduler: a complete task is DONE and its
\* requirements are not looked at; any other is PENDING and its requirements
\* are added in turn.
AddTask(st, f, stage, name) ==
    IF Complete(f, stage, name) THEN [st EXCEPT ![stage] = "DONE"]
    ELSE LET st1 == [st EXCEPT ![stage] = "PENDING"]
         IN  IF Requires(stage) = <<>> THEN st1
             ELSE AddTask(st1, f, Requires(stage)[1], name)

\* A scheduler that takes a failed requirement for a finished one.
RunnableAfterFailure(st, stage) ==
    /\ st[stage] = "PENDING"
    /\ \A d \in Range(Requires(stage)) : st[d] \in {"DONE", "FAILED"}

\* The scheduler hands out a pending task once every task it requires is done.
Runnable(st, stage) ==
    /\ st[stage] = "PENDING"
    /\ \A d \in Range(Requires(stage)) : st[d] = "DONE"

\* The worker's check before run(): a required task that is not complete.
Unfulfilled(f, stage, name) ==
    \E d \in Range(Requires(stage)) : ~Complete(f, d, name)

\* The exit status of the script, which drops what luigi.build returns:
\* line 156.
ExitStatus(ok) == 0

\* The script is run: luigi.build schedules the terminal task.
Invoke ==
    /\ phase \in {"start", "exited"} /\ runs < MaxRuns
    /\ phase' = "running"
    /\ runs' = runs + 1
    /\ prevRan' = ran
    /\ status' = AddTask(NoStatus, fs, Terminal, dataset_name)
    /\ ran' = <<>>
    /\ fs0' = fs
    /\ success' = TRUE
    /\ UNCHANGED <<fs, dataset_name, exitStatus>>

\* The worker runs a task: r is what its run action does to the filesystem
\* and whether it raised; ready is whether the output of the stage before it
\* in the chain exists as it starts.
RunTask(stage, r, ready) ==
    IF Unfulfilled(fs, stage, dataset_name)
    THEN /\ status' = [status EXCEPT ![stage] = "FAILED"]
         /\ success' = FALSE
         /\ UNCHANGED <<fs, ran>>
    ELSE /\ fs' = r.fs
         /\ ran' = Append(ran, [stage |-> stage, err |-> r.err, ready |-> ready])
         /\ status' = [status EXCEPT ![stage] = IF r.err = "" THEN "DONE" ELSE "FAILED"]
         /\ success' = (success /\ r.err = "")

RunDownload ==
    /\ phase = "running" /\ Runnable(status, "DownloadData")
    /\ \E res \in Archives \cup {Failed} :
          RunTask("DownloadData", DownloadRun(fs, dataset_name, res), TRUE)
    /\ UNCHANGED <<dataset_name, phase, fs0, runs, prevRan, exitStatus>>

RunExtract ==
    /\ phase = "running" /\ Runnable(status, "ExtractAndProcessData")
    /\ \E fail \in ExtractFails(fs, Input("ExtractAndProcessData", dataset_name)) :
          RunTask("ExtractAndProcessData", ExtractRun(fs, dataset_name, fail),
                  Exists(fs, Output("DownloadData", dataset_name)))
    /\ UNCHANGED <<dataset_name, phase, fs0, runs, prevRan, exitStatus>>

RunSegment ==
    /\ phase = "running" /\ Runnable(status, "SegmentTables")
    /\ \E order \in JobOrders(TextJobs(fs, Input("SegmentTables", dataset_name))) :
          RunTask("SegmentTables", SegmentRun(fs, dataset_name, order),
                  Exists(fs, Output("ExtractAndProcessData", dataset_name)))
    /\ UNCHANGED <<dataset_name, phase, fs0, runs, prevRan, exitStatus>>

\* No task is left to run: luigi.build returns and the script ends.
Exit ==
    /\ phase = "running"
    /\ \A t \in Stages : ~Runnable(status, t)
    /\ phase' = "exited"
    /\ exitStatus' = ExitStatus(success)
    /\ UNCHANGED <<fs, dataset_name, status, ran, fs0, runs, prevRan, success>>

Next ==
    \/ Invoke /\ UNCHANGED segVars
    \/ RunDownload /\ UNCHANGED segVars
    \/ RunExtract /\ UNCHANGED segVars
    \/ RunSegment /\ UNCHANGED segVars
    \/ Exit /\ UNCHANGED segVars

Spec == Init /\ [][Next]_vars

SpecIso == IsoInit /\ [][Next]_vars

\* ------------------------------------------------------------ the claims

ArchivePath == <<<<"data">>, <<"GSE68849_RAW", "tar">>>>
ExtractedPath == <<<<"extracted">>, <<"GSE68849">>>>
ProcessedPath == <<<<"processed">>, <<"GSE68849">>>>

\* The stages whose run action started in this invocation.
Executed == {ran[i].stage : i \in 1..Len(ran)}

NoRaise == \A i \in 1..Len(ran) : ran[i].err = ""

\* Where a stage's output is, spelled out.
PathOf(stage) ==
    CASE stage = "DownloadData" -> ArchivePath
      [] stage = "ExtractAndProcessData" -> ExtractedPath
      [] stage = "SegmentTables" -> ProcessedPath

\* A stage's place in the chain.
Place(stage) ==
    CASE stage = "DownloadData" -> 1
      [] stage = "ExtractAndProcessData" -> 2
      [] stage = "SegmentTables" -> 3

\* The invocation before this one ran all three stages and none raised.
PrevFullClean ==
    /\ runs >= 2
    /\ {prevRan[i].stage : i \in 1..Len(prevRan)} = Stages
    /\ \A i \in 1..Len(prevRan) : prevRan[i].err = ""

\* C1 (Idempotence): after a full run in which no stage action raised, the
\* next invocation executes no run action and leaves every file as it was,
\* whatever the archive held.
C1_Idempotence ==
    (phase = "exited" /\ PrevFullClean) => (ran = <<>> /\ fs = fs0)

\* C2 (Dependency skip): if processed/<dataset_id> exists when the pipeline is
\* invoked, no stage action runs in that invocation and the filesystem is left
\* as it was, whether or not the archive and extracted/<dataset_id> exist.
C2_DependencySkip ==
    (phase # "start" /\ Exists(fs0, ProcessedPath)) => (ran = <<>> /\ fs = fs0)

C2_Witness ==
    /\ phase = "exited" /\ ran = <<>>
    /\ Exists(fs0, ProcessedPath)
    /\ ~Exists(fs0, ArchivePath) /\ ~Exists(fs0, ExtractedPath)

\* C3 as stated: a run in which nothing raises executes exactly the stages
\* whose own output does not exist at invocation.
C3_ExecutesEveryMissing ==
    (phase = "exited" /\ NoRaise) => Executed = {t \in Stages : ~Exists(fs0, PathOf(t))}

\* The stages of the chain from t to the terminal stage whose output exists.
SatisfiedFrom(f, t) == {u \in Stages : Place(u) >= Place(t) /\ Exists(f, PathOf(u))}

\* C3 (amended): a run executes only stages whose own output and the output of
\* every stage downstream of them are missing at invocation, and when nothing
\* raises it executes all of those; a stage upstream of a satisfied stage is
\* skipped even if its own output is missing.
C3_ExecutesUnsatisfiedSuffix ==
    phase = "exited" =>
        /\ Executed \subseteq {t \in Stages : SatisfiedFrom(fs0, t) = {}}
        /\ NoRaise => Executed = {t \in Stages : SatisfiedFrom(fs0, t) = {}}

C3_Witness ==
    /\ phase = "exited" /\ NoRaise
    /\ Exists(fs0, ExtractedPath) /\ ~Exists(fs0, ArchivePath) /\ ~Exists(fs0, ProcessedPath)
    /\ Executed = {"SegmentTables"}

\* C4 (Dependency order): the run actions of one invocation start in the order
\* DownloadData, ExtractAndProcessData, SegmentTables, each after the one
\* before it has ended; ExtractAndProcessData.run starts only with the archive
\* in place and SegmentTables.run only with extracted/<dataset_id> in place.
C4_DependencyOrder ==
    \A i \in 1..Len(ran) :
        /\ ran[i].ready
        /\ \A j \in 1..Len(ran) : i < j => Place(ran[i].stage) < Place(ran[j].stage)

C4_Witness ==
    /\ Len(ran) = 3
    /\ ran[1].stage = "DownloadData" /\ ran[3].stage = "SegmentTables"

\* C5 (Error abort): once the run action of a stage has raised, no run action
\* of a stage downstream of it is executed in that invocation.
C5_ErrorAbort ==
    \A i, j \in 1..Len(ran) :
        (ran[i].err # "" /\ i # j) => Place(ran[j].stage) < Place(ran[i].stage)

C5_Witness ==
    /\ phase = "exited" /\ Len(ran) = 2
    /\ ran[1].stage = "DownloadData" /\ ran[1].err = ""
    /\ ran[2].stage = "ExtractAndProcessData" /\ ran[2].err # ""
    /\ Exists(fs, ExtractedPath) /\ ~Exists(fs, ProcessedPath)

\* C6 (Safe re-run): after an invocation in which a stage's action raised,
\* that stage's output does not exist, so the next invocation runs it again.
C6_SafeRerun ==
    phase = "exited" =>
        \A i \in 1..Len(ran) : ran[i].err # "" => ~Exists(fs, PathOf(ran[i].stage))

\* C7 (Archive cleanup): once ExtractAndProcessData.run has attempted the
\* archive, whether it extracted or raised, the archive file is gone.
C7_ArchiveCleanup ==
    "ExtractAndProcessData" \in Executed => ~Exists(fs, ArchivePath)

C7_Witness ==
    \E i \in 1..Len(ran) :
        /\ ran[i].stage = "ExtractAndProcessData" /\ ran[i].err = "ReadError"
        /\ Exists(fs0, ArchivePath)
        /\ ~Exists(fs, ArchivePath)

\* C8 (Exit behaviour): when a stage's run action raised, the process ends
\* with a non-zero exit status.
C8_ExitNonZero ==
    (phase = "exited" /\ ~NoRaise) => exitStatus # 0

\* The lines of the file that begin with '['.
TagLines == {i \in 1..Len(lines) : StartsWithBracket(lines[i])}

\* The lines after tag line i up to the next tag line or the end of the file.
SectionAfter(i) ==
    LET later == {j \in TagLines : j > i}
        stop  == IF later = {} THEN Len(lines) + 1
                 ELSE CHOOSE j \in later : \A k \in later : j <= k
    IN  SubSeq(lines, i + 1, stop - 1)

\* A section as the table file it should make: one row of cells per line.
AsRows(section) == [k \in 1..Len(section) |-> Cells(section[k])]

\* Every line of the section has as many cells as its first.
Rectangular(section) ==
    \A k \in 1..Len(section) : Len(Cells(section[k])) = Len(Cells(section[1]))

\* The file is a section tagged Header followed by a section tagged Probes,
\* each a table with a header line.
HeaderProbesFile ==
    /\ Cardinality(TagLines) = 2 /\ 1 \in TagLines
    /\ lines[1] = LHeader
    /\ \E i \in TagLines : i > 2 /\ i < Len(lines) /\ lines[i] = LProbes
    /\ \A i \in TagLines : Rectangular(SectionAfter(i))

ProbesSection == SectionAfter(CHOOSE i \in TagLines : lines[i] = LProbes)

ProbesColumns == Range(Cells(ProbesSection[1]))

RECURSIVE KeepCells(_, _)
\* The cells of row under the columns that are not verbose.
KeepCells(columns, row) ==
    IF columns = <<>> THEN <<>>
    ELSE (IF Head(columns) \in VerboseColumns THEN <<>> ELSE <<Head(row)>>)
           \o KeepCells(Tail(columns), Tail(row))

\* The three files the segmenter should leave for a Header/Probes file.
ReducedWritten ==
    /\ pcSeg = "done"
    /\ DOMAIN outdir = {<<"GPL_Header", "tsv">>, <<"GPL_Probes", "tsv">>, ReducedName}
    /\ outdir[<<"GPL_Header", "tsv">>] = AsRows(SectionAfter(1))
    /\ outdir[<<"GPL_Probes", "tsv">>] = AsRows(ProbesSection)
    /\ outdir[ReducedName] =
         [k \in 1..Len(ProbesSection) |->
            KeepCells(Cells(ProbesSection[1]), Cells(ProbesSection[k]))]
    /\ "ID" \in Range(outdir[ReducedName][1])
    /\ Range(outdir[ReducedName][1]) \cap VerboseColumns = {}

\* C9 as stated: when the Probes header holds ID and only some of the verbose
\* columns, the Header table, the Probes table and Probes_reduced (verbose
\* columns absent, the others retained) are written without raising.
C9_ReducesPartialProbes ==
    (/\ pcSeg \in {"done", "raised"}
     /\ HeaderProbesFile
     /\ "ID" \in ProbesColumns
     /\ ProbesColumns \cap VerboseColumns # {}
     /\ ~(VerboseColumns \subseteq ProbesColumns))
    => ReducedWritten

\* C9 (amended): when the Probes header holds ID and every one of the seven
\* verbose columns, the Header table, the Probes table and Probes_reduced
\* (verbose columns absent, ID and every other column retained) are written
\* without raising.
C9_ReducesFullProbes ==
    (/\ pcSeg \in {"done", "raised"}
     /\ HeaderProbesFile
     /\ "ID" \in ProbesColumns
     /\ VerboseColumns \subseteq ProbesColumns)
    => ReducedWritten

C9_Witness ==
    /\ pcSeg = "done"
    /\ lines = <<LHeader, Lab, L12, LProbes, LFull, LFullRow>>
    /\ outdir[ReducedName] = <<<<"ID", "Symbol">>, <<"1", "TP53">>>>

\* C10 (Each section gets its own table), for the files that begin with a tag
\* line, have no empty tag and hold well-formed tables, once processed without
\* raising: as many tables are parsed and written as there are tag lines, and
\* the table of each tag line holds exactly the lines of its section, also
\* when two tag lines carry the same tag.
C10_TablePerSection ==
    (/\ pcSeg = "done"
     /\ 1 \in TagLines
     /\ \A i \in TagLines : StripTag(lines[i]) # "" /\ Rectangular(SectionAfter(i)))
    => /\ Len(dfs) = Cardinality(TagLines)
       /\ Cardinality(DOMAIN outdir \ {ReducedName}) = Cardinality(TagLines)
       /\ \A i \in TagLines :
            LET n == OutName(TextName, <<StripTag(lines[i])>>)
            IN  n \in DOMAIN outdir /\ outdir[n] = AsRows(SectionAfter(i))

\* ------------------------------------------------ the last section (C11)

\* The last tag line of the file (the file has one).
LastTagLine == CHOOSE i \in TagLines : \A j \in TagLines : j <= i

\* Reading is over: the tables are parsed or the parse has raised.
ParseEnded == pcSeg \in {"save", "done", "raised"}

\* The tags of the tables parsed, in the order of dfs.
DfsKeys == {dfs[k].key : k \in 1..Len(dfs)}

\* The rows (header first) of the table dfs holds under key.
TableOf(key) == ToCsv((CHOOSE it \in Range(dfs) : it.key = key).df)

\* C11 (Last-section-to-EOF), for the files that begin with a tag line and
\* hold well-formed tables: when the last tag line is followed by at least
\* one line, the table keyed by the last tag is built from exactly the lines
\* after that tag line up to the end of the file (the first of them the
\* header), and the end of the file adds no table beyond it: every table is
\* keyed by the tag of a tag line, and there are no more tables than tag lines.
C11_LastSectionToEof ==
    (/\ ParseEnded
     /\ 1 \in TagLines
     /\ LastTagLine < Len(lines)
     /\ \A i \in TagLines : Rectangular(SectionAfter(i)))
    => /\ made
       /\ <<StripTag(lines[LastTagLine])>> \in DfsKeys
       /\ TableOf(<<StripTag(lines[LastTagLine])>>) = AsRows(SectionAfter(LastTagLine))
       /\ DfsKeys \subseteq {<<StripTag(lines[i])>> : i \in TagLines}
       /\ Len(dfs) <= Cardinality(TagLines)

\* ------------------------------------------------ the file without tags (C12)

ExtractCompletes ==
    /\ Len(ran') = Len(ran) + 1
    /\ Last(ran').stage = "ExtractAndProcessData"
    /\ Last(ran').err = ""

\* The members of the archive the step unpacks.
ArchiveMembers == fs[ArchivePath].members

\* Directory d of filesystem f holds a file with the lines of content.
HoldsContent(f, d, content) ==
    \E p \in DOMAIN f :
        /\ Len(p) = Len(d) + 1 /\ SubSeq(p, 1, Len(d)) = d
        /\ f[p] = [kind |-> "text", lines |-> content]

\* C13 (Unpacker output): when ExtractAndProcessData.run completes without
\* raising, for every member of the archive, compressed or not, the extraction
\* root holds a subdirectory named after the member's stem, and that
\* subdirectory holds the member's uncompressed content.
C13_UnpackerOutput ==
    [][ExtractCompletes =>
         \A i \in 1..Len(ArchiveMembers) :
            LET member == ArchiveMembers[i]
                sub    == Append(ExtractedPath, SplitExt(member.name))
            IN  /\ IsDir(fs', sub)
                /\ HoldsContent(fs', sub, member.node.lines)]_vars

\* ------------------------------------------- the compressed members (C14)

\* This step is ExtractAndProcessData.run with the archive opened and
\* extracted, so that the loop over the members runs.
ExtractLoops ==
    /\ Len(ran') = Len(ran) + 1
    /\ Last(ran').stage = "ExtractAndProcessData"
    /\ Last(ran').err \notin {"ReadError", "FileNotFoundError"}

IsGz(member) == EndsWith(member.name, "gz")

\* The members that do not decompress.
BadMembers == {i \in 1..Len(ArchiveMembers) : IsGz(ArchiveMembers[i]) /\ ~ArchiveMembers[i].node.ok}

\* The last member the loop reaches: the first that does not decompress.
LastReached ==
    IF BadMembers = {} THEN Len(ArchiveMembers)
    ELSE CHOOSE i \in BadMembers : \A j \in BadMembers : i <= j

\* Where extractall puts a member.
MemberPath(member) == Append(ExtractedPath, member.name)

\* C14 (Compressed-member cleanup): every '.gz' member _process_gzip_file is
\* called on is gone from the extraction root when the call ends, whether it
\* decompressed or raised; when it raises, the run raises (the stage fails
\* with that error) and no later member is processed: a later member is
\* still where extractall put it, as extracted, and no subdirectory is made
\* for it.
C14_GzipCleanup ==
    [][ExtractLoops =>
         /\ \A i \in 1..LastReached :
               IsGz(ArchiveMembers[i]) => ~Exists(fs', MemberPath(ArchiveMembers[i]))
         /\ BadMembers # {} =>
               /\ Last(ran').err = "BadGzipFile"
               /\ status'["ExtractAndProcessData"] = "FAILED"
               /\ \A j \in (LastReached + 1)..Len(ArchiveMembers) :
                     LET later == ArchiveMembers[j]
                     IN  /\ Exists(fs', MemberPath(later))
                         /\ fs'[MemberPath(later)] = later.node
                         /\ ~Exists(fs', Append(ExtractedPath, SplitExt(later.name)))]_vars

\* A member that does not decompress was removed and the run stopped there:
\* the member after it is still compressed.
C14_Witness ==
    /\ \E i \in 1..Len(ran) :
          ran[i].stage = "ExtractAndProcessData" /\ ran[i].err = "BadGzipFile"
    /\ Exists(fs, Append(ExtractedPath, <<"GSM", "txt">>))
    /\ ~Exists(fs, Append(ExtractedPath, <<"GSM", "txt", "gz">>))
    /\ Exists(fs, Append(ExtractedPath, <<"GPL", "txt", "gz">>))

\* ------------------------------------------- finalizing at a tag line (C15)

\* The tag line read last before line i (there is one).
EarlierTagLine(i) ==
    CHOOSE j \in TagLines : j < i /\ \A k \in TagLines : k < i => k <= j

\* This step reads a tag line that comes after an earlier tag line, with a
\* well-formed table in the buffer.
ReadsLaterTagLine ==
    /\ pcSeg = "read" /\ pos <= Len(lines) /\ pos' = pos + 1
    /\ StartsWithBracket(lines[pos])
    /\ \E j \in TagLines : j < pos
    /\ fio # <<>> /\ Rectangular(fio)

\* C15 (Finalize on tag line): at every tag line read after an earlier tag
\* line, the buffered lines are finalized as a table under the earlier tag,
\* the buffer is reset to empty and the new tag is set, whatever the earlier
\* tag is, the empty string of the line '[]' included.
C15_FinalizeOnTagLine ==
    [][ReadsLaterTagLine =>
         /\ pcSeg' = "read"
         /\ \E k \in 1..Len(dfs') :
               /\ dfs'[k].key = <<StripTag(lines[EarlierTagLine(pos)])>>
               /\ ToCsv(dfs'[k].df) = AsRows(fio)
         /\ fio' = <<>>
         /\ write_key' = <<StripTag(lines[pos])>>]_vars

\* ------------------------------------------------ empty sections (C16)

\* The tag lines whose section has no line: a tag line followed at once by
\* another, or the last line of the file.
EmptySections == {i \in TagLines : SectionAfter(i) = <<>>}

\* C16 (Zero-line sections are accepted), for the files of well-formed
\* tables under non-empty tags: a file with a section of zero lines is parsed
\* without raising, each such section yields a table without rows under its
\* tag, and every other section has its table too.
C16_ZeroLineSections ==
    (/\ ParseEnded
     /\ EmptySections # {}
     /\ \A i \in TagLines : StripTag(lines[i]) # "" /\ Rectangular(SectionAfter(i)))
    => /\ made
       /\ \A i \in TagLines : <<StripTag(lines[i])>> \in DfsKeys
       /\ \A i \in EmptySections :
             \E k \in 1..Len(dfs) :
                dfs[k].key = <<StripTag(lines[i])>> /\ dfs[k].df.rows = <<>>

\* ------------------------------------- the missing reduction column (C17)

ProbesKey == <<"Probes">>

\* The parse made a table tagged Probes that lacks a verbose column.
ProbesLacksColumn ==
    /\ made
    /\ ProbesKey \in DfsKeys
    /\ ~(VerboseColumns \subseteq Range(TableOf(ProbesKey)[1]))

\* C17 (Missing reduction column): when the table tagged Probes lacks at least
\* one of the seven verbose columns, the main Probes file is written in full,
\* no Probes_reduced.tsv is written, and _process_text_file raises.
C17_MissingReductionColumn ==
    (pcSeg \in {"done", "raised"} /\ ProbesLacksColumn)
    => /\ pcSeg = "raised"
       /\ OutName(TextName, ProbesKey) \in DOMAIN outdir
       /\ outdir[OutName(TextName, ProbesKey)] = TableOf(ProbesKey)
       /\ ReducedName \notin DOMAIN outdir

C17_Witness ==
    /\ pcSeg = "raised"
    /\ lines = <<LHeader, Lab, L12, LProbes, LPart, LPartRow>>
    /\ DOMAIN outdir = {<<"GPL_Header", "tsv">>, <<"GPL_Probes", "tsv">>}
    /\ outdir[<<"GPL_Probes", "tsv">>] =
          <<<<"ID", "Definition", "Probe_Sequence">>, <<"1", "foo", "ACGT">>>>

\* ------------------------------------------- identifier isolation (C18)

\* C18 (Identifier isolation): for the identifier A of the run and every
\* other identifier B, no stage output path of A is a stage output path of B,
\* and from the start of an invocation for A on, every stage output path of
\* B is as the invocation found it: there or not, with what it was.
C18_IdentifierIsolation ==
    \A B \in IsoNames \ {dataset_name} :
        /\ \A s, t \in Stages : Output(s, dataset_name) # Output(t, B)
        /\ phase # "start" =>
              \A t \in Stages :
                 /\ Exists(fs, Output(t, B)) = Exists(fs0, Output(t, B))
                 /\ Exists(fs0, Output(t, B)) => fs[Output(t, B)] = fs0[Output(t, B)]

\* ------------------------------------------------ preamble lines (C19)

FirstTagLine == CHOOSE i \in TagLines : \A j \in TagLines : i <= j

\* The lines before the first tag line.
Preamble == SubSeq(lines, 1, FirstTagLine - 1)

\* The preamble followed by the lines of the first tagged section.
PreambleAndFirstSection == Preamble \o SectionAfter(FirstTagLine)

\* The first tagged section has been finalized: the tag line after it has
\* just been read or, when there is none, the end of the file has been.
FirstSectionFinalized ==
    IF Cardinality(TagLines) = 1 THEN ParseEnded
    ELSE pos = 1 + (CHOOSE j \in TagLines \ {FirstTagLine} :
                       \A k \in TagLines \ {FirstTagLine} : j <= k)

\* C19 (Preamble lines), for a file with lines before its first tag line
\* that form a well-formed table with the lines of the first tagged section:
\* no table is ever keyed by None; at the first tag line the preamble stays
\* in the buffer and no table is made of it; and the table of the first
\* tagged section, once finalized, holds the preamble (its first line the
\* header) followed by the section's lines.
C19_PreambleLines ==
    (/\ TagLines # {}
     /\ 1 \notin TagLines
     /\ Rectangular(PreambleAndFirstSection))
    => /\ None \notin DfsKeys
       /\ (pcSeg = "read" /\ pos = FirstTagLine + 1) => (fio = Preamble /\ dfs = <<>>)
       /\ FirstSectionFinalized =>
             /\ <<StripTag(lines[FirstTagLine])>> \in DfsKeys
             /\ TableOf(<<StripTag(lines[FirstTagLine])>>) = AsRows(PreambleAndFirstSection)

=============================================================================
